---- MODULE Spec2Model ----
\* HyperKZG (jolt-core/src/poly/commitment/hyperkzg.rs) and the REM virtual
\* instruction sequence (jolt-core/src/jolt/instruction/rem.rs).
\*
\* Algebraic model of the pairing setting: the scalar field is the prime field
\* of order FieldOrder; a G1 (G2) element is written by its discrete logarithm
\* to the base g1 (g2), so the group law is addition, scalar multiplication is
\* multiplication and the pairing e(a*g1, b*g2) is the product a*b in GT.
\* The Fiat-Shamir transcript is a log of the operations performed on it; a
\* challenge is drawn from a lazily sampled table indexed by that log, so the
\* same log always yields the same challenge and a new log may yield any one.
EXTENDS Integers, Sequences, FiniteSets, TLC

\* ------------------------------------------------------------------ bounds
\* coefficients of the polynomials handed to commit/open: 0..MaxCoeff
MaxCoeff == 1

\* ------------------------------------------------------------ scalar field
FieldOrder == 3
F == 0 .. (FieldOrder - 1)
FZero == 0
FOne == 1 % FieldOrder
FAdd(a, b) == (a + b) % FieldOrder
FMul(a, b) == (a * b) % FieldOrder
FNeg(a) == (FieldOrder - a) % FieldOrder
FSub(a, b) == FAdd(a, FNeg(b))
FFrom(n) == n % FieldOrder

RECURSIVE FSum(_)
FSum(s) == IF s = <<>> THEN FZero ELSE FAdd(Head(s), FSum(Tail(s)))

Min(a, b) == IF a < b THEN a ELSE b

RECURSIVE Pow2(_)
Pow2(n) == IF n = 0 THEN 1 ELSE 2 * Pow2(n - 1)

\* the sequence with the entries of f, computed once
vec(f) == SubSeq(f, 1, Len(f))

RECURSIVE Flatten(_)
Flatten(rows) == IF rows = <<>> THEN <<>> ELSE Head(rows) \o Flatten(Tail(rows))

\* ------------------------------------------------------- groups and pairing
G1Zero == 0
G1Gen == 1 % FieldOrder
G2Gen == 1 % FieldOrder
G1Add(a, b) == FAdd(a, b)
G1Mul(a, s) == FMul(a, s)
pairing(a, b) == FMul(a, b)

\* VariableBaseMSM::msm: sum of scalars[i] * bases[i]; an error on a length mismatch
msm(bases, scalars) ==
    IF Len(bases) # Len(scalars)
    THEN [ok |-> FALSE, val |-> G1Zero]
    ELSE [ok |-> TRUE,
          val |-> FSum([i \in 1 .. Len(bases) |-> G1Mul(bases[i], scalars[i])])]

\* ----------------------------------------------------------- SRS and keys
\* the degree of the tests' SRS: HyperKZGSRS::setup(rng, 3), trim(3)
MaxDegree == 3

RECURSIVE FPow(_, _)
FPow(a, n) == IF n = 0 THEN FOne ELSE FMul(a, FPow(a, n - 1))

\* SRS::setup followed by SRS::trim(max_degree): the powers tau^0 .. tau^max_degree
\* of g1 for the prover, (g1, g2, tau*g2) for the verifier
trim(t, max_degree) ==
    [pk |-> vec([i \in 1 .. (max_degree + 1) |-> G1Mul(G1Gen, FPow(t, i - 1))]),
     vk |-> [g1 |-> G1Gen, g2 |-> G2Gen, beta_g2 |-> FMul(G2Gen, t)]]

\* UnivariateKZG::commit(pk, UniPoly::from_coeff(coeffs))
UnivariateKZG_commit(g1_powers, coeffs) ==
    IF Len(g1_powers) < Len(coeffs)
    THEN [ok |-> FALSE, err |-> <<"KeyLengthError", Len(g1_powers), Len(coeffs)>>,
          val |-> G1Zero]
    ELSE [ok |-> TRUE, err |-> <<>>,
          val |-> msm(SubSeq(g1_powers, 1, Len(coeffs)), coeffs).val]

\* --------------------------------------------------------------- transcript
NewTranscript == << <<"new", "TestEval", <<>> >> >>
append_points(tr, label, pts) == Append(tr, <<"append_points", label, pts>>)
append_scalars(tr, label, xs) == Append(tr, <<"append_scalars", label, xs>>)
\* the transcript state after challenge_scalar(label); the scalar returned is the
\* table's entry for that state
challenge_state(tr, label) == Append(tr, <<"challenge_scalar", label, <<>> >>)

\* ------------------------------------------------------------ HyperKZG::commit
commit(pp, Z) ==
    IF Len(pp) < Len(Z)
    THEN [ok |-> FALSE, err |-> <<"KeyLengthError", Len(pp), Len(Z)>>, val |-> G1Zero]
    ELSE UnivariateKZG_commit(pp, Z)

\* ------------------------------------------------------------ HyperKZG::open
\* compute_witness_polynomial: h[d-1] = 0, h[i-1] = f[i] + h[i]*u for i = d-1 .. 1
\* (positions below are 1-based: entry m here is h[m-1] of the code)
RECURSIVE witness_coeff(_, _, _)
witness_coeff(f, u, m) ==
    IF m >= Len(f) THEN FZero
    ELSE FAdd(f[m + 1], FMul(witness_coeff(f, u, m + 1), u))

\* the witness polynomial with the point left out of the recurrence:
\* h[i-1] = f[i] + h[i]
compute_witness_polynomial_without_u(f, u) ==
    vec([m \in 1 .. Len(f) |-> witness_coeff(f, FOne, m)])

compute_witness_polynomial(f, u) == vec([m \in 1 .. Len(f) |-> witness_coeff(f, u, m)])

\* kzg_open: the commitment to the witness polynomial, before its unwrap()
kzg_open(pk, f, u) == UnivariateKZG_commit(pk, compute_witness_polynomial(f, u))

\* poly_eval: v = f[0]; for each further coefficient u_power *= u, v += u_power * fi
RECURSIVE poly_eval_loop(_, _, _, _, _)
poly_eval_loop(f, u, i, u_power, v) ==
    IF i > Len(f) THEN v
    ELSE poly_eval_loop(f, u, i + 1, FMul(u_power, u),
                        FAdd(v, FMul(FMul(u_power, u), f[i])))

poly_eval(f, u) == poly_eval_loop(f, u, 2, FOne, f[1])

\* batch_challenge_powers: (1, q, q^2, ..., q^(k-1))
RECURSIVE q_power(_, _)
q_power(q, i) == IF i = 0 THEN FOne ELSE FMul(q_power(q, i - 1), q)

batch_challenge_powers(q, k) == vec([i \in 1 .. k |-> q_power(q, i - 1)])

\* scalar_vector_muladd: a[i] += s * v[i] for i < v.len() (a.len() >= v.len() here)
scalar_vector_muladd(a, v, s) ==
    vec([i \in 1 .. Len(a) |-> IF i <= Len(v) THEN FAdd(a[i], FMul(s, v[i])) ELSE a[i]])

\* kzg_compute_batch_polynomial: B = f[0] + q*f[1] + ... + q^(k-1)*f[k-1]
RECURSIVE batch_loop(_, _, _, _)
batch_loop(f, q_powers, B, i) ==
    IF i > Len(f) THEN B
    ELSE batch_loop(f, q_powers, scalar_vector_muladd(B, f[i], q_powers[i]), i + 1)

kzg_compute_batch_polynomial(f, q) ==
    batch_loop(f, batch_challenge_powers(q, Len(f)), f[1], 2)

\* fold with the odd entry as the base of the interpolation
fold_odd_base(P, xv) ==
    vec([j \in 1 .. (Len(P) \div 2) |->
            FAdd(FMul(xv, FSub(P[2 * j], P[2 * j - 1])), P[2 * j])])

\* one level of the fold tower:
\* Pi[j] = x * (P[2j+1] - P[2j]) + P[2j]          (0-based j)
fold(P, xv) ==
    vec([j \in 1 .. (Len(P) \div 2) |->
            FAdd(FMul(xv, FSub(P[2 * j], P[2 * j - 1])), P[2 * j - 1])])

\* the fold tower taking the coordinates of x from the front: iteration i folds
\* polys[i] with x[i]
RECURSIVE fold_tower_front_first(_, _, _)
fold_tower_front_first(Z, x, m) ==
    IF m = 0 THEN <<Z>>
    ELSE LET prev == fold_tower_front_first(Z, x, m - 1)
         IN  Append(prev, fold(prev[m], x[m]))

\* polys after m iterations of the loop `for i in 0..ell - 1`: iteration i (0-based)
\* folds polys[i] with x[ell - i - 1]
RECURSIVE fold_tower(_, _, _)
fold_tower(Z, x, m) ==
    IF m = 0 THEN <<Z>>
    ELSE LET prev == fold_tower(Z, x, m - 1)
         IN  Append(prev, fold(prev[m], x[Len(x) - m + 1]))

points_of(r) == <<r, FNeg(r), FMul(r, r)>>

\* open, Phase 1 and Phase 2 up to the challenge r: the fold tower, its commitments
\* (each unwrap()ped) and the transcript state r is drawn at. status "panic" is an
\* abort of open, which then returns nothing.
open_commit_phase(g1_powers, tr, Z, x) ==
    LET ell == Len(x)
        n == Len(Z)
    IN
    IF n # Pow2(ell) \/ ell = 0
    THEN [status |-> "panic", polys |-> <<>>, com |-> <<>>, tr |-> tr]
    ELSE
    LET polys == fold_tower(Z, x, ell - 1)
        coms == vec([i \in 1 .. (Len(polys) - 1) |->
                        UnivariateKZG_commit(g1_powers, polys[i + 1])])
        com == vec([i \in 1 .. Len(coms) |-> coms[i].val])
    IN
    IF \E i \in 1 .. Len(coms) : ~coms[i].ok
    THEN [status |-> "panic", polys |-> polys, com |-> <<>>, tr |-> tr]
    ELSE [status |-> "Ok", polys |-> polys, com |-> com,
          tr |-> challenge_state(append_points(tr, "c", com), "c")]

\* kzg_open_batch up to the challenge q: v[j][i] = f_i(u_j), appended row-major
kzg_open_batch_evals(f, u, tr) ==
    LET v == vec([j \in 1 .. Len(u) |-> vec([i \in 1 .. Len(f) |-> poly_eval(f[i], u[j])])])
    IN  [v |-> v, tr |-> challenge_state(append_scalars(tr, "v", Flatten(v)), "r")]

\* kzg_open_batch from the challenge q on: B, its openings at u (each unwrap()ped),
\* and the transcript state d_0 is drawn at
kzg_open_batch_witnesses(g1_powers, f, u, q, tr) ==
    LET B == kzg_compute_batch_polynomial(f, q)
        ws == vec([j \in 1 .. Len(u) |-> kzg_open(g1_powers, B, u[j])])
        w == vec([j \in 1 .. Len(u) |-> ws[j].val])
    IN
    IF \E j \in 1 .. Len(u) : ~ws[j].ok
    THEN [status |-> "panic", w |-> <<>>, tr |-> tr]
    ELSE [status |-> "Ok", w |-> w,
          tr |-> challenge_state(append_points(tr, "W", w), "d")]

\* ---------------------------------------------------------- HyperKZG::verify
\* the consistency loop stopping one index early: `for i in 0..ell - 1`
consistent_at_but_last(x, r, Y, ypos, yneg, i) ==
    \/ i = Len(x) - 1
    \/ FMul(FMul(FFrom(2), r), Y[i + 2])
          = FAdd(FMul(FMul(r, FSub(FOne, x[Len(x) - i])), FAdd(ypos[i + 1], yneg[i + 1])),
                 FMul(x[Len(x) - i], FSub(ypos[i + 1], yneg[i + 1])))

\* the consistency loop starting one index late: `for i in 1..ell`
consistent_at_but_first(x, r, Y, ypos, yneg, i) ==
    \/ i = 0
    \/ FMul(FMul(FFrom(2), r), Y[i + 2])
          = FAdd(FMul(FMul(r, FSub(FOne, x[Len(x) - i])), FAdd(ypos[i + 1], yneg[i + 1])),
                 FMul(x[Len(x) - i], FSub(ypos[i + 1], yneg[i + 1])))

\* the multilinear consistency equation for index i (0-based, as in the code):
\* 2*r*Y[i+1] = r*(1 - x[ell-i-1])*(ypos[i] + yneg[i]) + x[ell-i-1]*(ypos[i] - yneg[i])
consistent_at(x, r, Y, ypos, yneg, i) ==
    LET ell == Len(x)
        xi == x[ell - i]
        two == FFrom(2)
    IN  FMul(FMul(two, r), Y[i + 2])
          = FAdd(FMul(FMul(r, FSub(FOne, xi)), FAdd(ypos[i + 1], yneg[i + 1])),
                 FMul(xi, FSub(ypos[i + 1], yneg[i + 1])))

\* B_u: each row of v zipped with q_powers (the shorter of the two decides), summed
batched_evals(v, q_powers) ==
    vec([j \in 1 .. Len(v) |->
            FSum([i \in 1 .. Min(Len(v[j]), Len(q_powers)) |-> FMul(v[j][i], q_powers[i])])])

\* the pairing equation with the batched evaluations added to L, not subtracted
batch_pairing_check_plus_evals(vk, C, W, u, v, q, d_0) ==
    LET k == Len(C)
        q_powers == batch_challenge_powers(q, k)
        d_1 == FMul(d_0, d_0)
        q_power_multiplier == FAdd(FAdd(FOne, d_0), d_1)
        q_powers_multiplied == vec([i \in 1 .. k |-> FMul(q_powers[i], q_power_multiplier)])
        B_u == batched_evals(v, q_powers)
        L == msm(C \o <<W[1], W[2], W[3], vk.g1>>,
                 q_powers_multiplied
                   \o <<u[1], FMul(u[2], d_0), FMul(u[3], d_1),
                        FAdd(FAdd(B_u[1], FMul(d_0, B_u[2])), FMul(d_1, B_u[3]))>>)
        R == G1Add(G1Add(W[1], G1Mul(W[2], d_0)), G1Mul(W[3], d_1))
    IN  pairing(L.val, vk.g2) = pairing(R, vk.beta_g2)

\* the pairing equation of kzg_verify_batch once both of its challenges are drawn
\* and W.len() = 3 is established: e(L, g2) = e(R, tau*g2)
batch_pairing_check(vk, C, W, u, v, q, d_0) ==
    LET k == Len(C)
        q_powers == batch_challenge_powers(q, k)
        d_1 == FMul(d_0, d_0)
        q_power_multiplier == FAdd(FAdd(FOne, d_0), d_1)
        q_powers_multiplied == vec([i \in 1 .. k |-> FMul(q_powers[i], q_power_multiplier)])
        B_u == batched_evals(v, q_powers)
        L == msm(C \o <<W[1], W[2], W[3], vk.g1>>,
                 q_powers_multiplied
                   \o <<u[1], FMul(u[2], d_0), FMul(u[3], d_1),
                        FNeg(FAdd(FAdd(B_u[1], FMul(d_0, B_u[2])), FMul(d_1, B_u[3])))>>)
        R == G1Add(G1Add(W[1], G1Mul(W[2], d_0)), G1Mul(W[3], d_1))
    IN  pairing(L.val, vk.g2) = pairing(R, vk.beta_g2)

\* the rejection of trivial parameters without the test of C
trivial_parameters_r_only(r, C) == r = FZero

\* verify's rejection of trivial parameters: r = 0 or C the identity
trivial_parameters(r, C) == r = FZero \/ C = G1Zero

\* verify's shape test of pi.v: three rows, each of length ell
shape_ok(v, ell) ==
    IF Len(v) # 3 THEN FALSE
    ELSE ~(Len(v[1]) # ell \/ Len(v[2]) # ell \/ Len(v[3]) # ell)

\* verify's transcript without the append of pi.w
verify_transcripts_without_W(tr, pi) ==
    LET tr1 == challenge_state(append_points(tr, "c", pi.com), "c")
        tr2 == challenge_state(append_scalars(tr1, "v", Flatten(pi.v)), "r")
        tr3 == challenge_state(tr2, "d")
    IN  <<tr1, tr2, tr3>>

\* the transcript states verify draws its challenges r, q and d_0 at: after
\* appending pi.com under "c", then pi.v (row-major) under "v", then pi.w under "W"
verify_transcripts(tr, pi) ==
    LET tr1 == challenge_state(append_points(tr, "c", pi.com), "c")
        tr2 == challenge_state(append_scalars(tr1, "v", Flatten(pi.v)), "r")
        tr3 == challenge_state(append_points(tr2, "W", pi.w), "d")
    IN  <<tr1, tr2, tr3>>

\* verify from the challenge r up to kzg_verify_batch: the rejection of trivial
\* parameters, the shape test and the consistency loop. consistency tells whether
\* the consistency loop was reached.
verify_checks(C, x, y, pi, r) ==
    LET ell == Len(x)
        v == pi.v
        Err(cons) == [status |-> "InternalError", consistency |-> cons]
    IN
    IF trivial_parameters(r, C) THEN Err(FALSE)
    ELSE IF ~shape_ok(v, ell) THEN Err(FALSE)
    ELSE
    LET ypos == v[1]
        yneg == v[2]
        Y == Append(v[3], y)
    IN
    IF \E i \in 0 .. (ell - 1) : ~consistent_at(x, r, Y, ypos, yneg, i)
    THEN Err(TRUE)
    ELSE [status |-> "continue", consistency |-> TRUE]

\* kzg_verify_batch once its challenges q and d_0 are drawn: assert_eq!(W.len(), 3)
\* aborts verify, otherwise the pairing equation decides
kzg_verify_batch(vk, C, W, u, v, q, d_0) ==
    IF Len(W) # 3 THEN "panic"
    ELSE IF batch_pairing_check(vk, C, W, u, v, q, d_0) THEN "Ok"
    ELSE "InternalError"

\* DensePolynomial::evaluate: the multilinear extension of Z at x, x[0] bound to
\* the most significant bit of the index into Z
RECURSIVE evaluate(_, _)
evaluate(Z, x) ==
    IF Len(x) = 0 THEN Z[1]
    ELSE LET half == Len(Z) \div 2
             lo == evaluate(SubSeq(Z, 1, half), Tail(x))
             hi == evaluate(SubSeq(Z, half + 1, Len(Z)), Tail(x))
         IN  FAdd(FMul(FSub(FOne, Head(x)), lo), FMul(Head(x), hi))

\* ------------------------------------------------- REM: virtual instructions
\* Option<T>: None is the empty sequence, Some(v) the sequence of v
Nothing == <<>>
Some(v) == <<v>>
unwrap(o) == o[1]

\* A 32-bit word is written as the i32 with its
\* bits: the u64 v < 2^32 that a register or a trace row holds is written v when
\* v < 2^31 and v - 2^32 otherwise, so `as i32` and `as u32 as u64` change nothing.
WORD_SIZE == 32
Half == Pow2(WORD_SIZE \div 2)
IntMax == (((Half \div 2) - 1) * Half) + (Half - 1)
IntMin == (-IntMax) - 1

\* the low and the high half of a word
Lo(a) == a % Half
Hi(a) == a \div Half
\* the word with halves hi (taken modulo 2^16) and lo
Word(hi, lo) ==
    LET h == hi % Half
    IN  ((IF h >= Half \div 2 THEN h - Half ELSE h) * Half) + lo

\* ADDInstruction::<32>(a, b).lookup_entry(): a + b modulo 2^32
ADD_lookup(a, b) ==
    LET s == Lo(a) + Lo(b)
    IN  Word(Hi(a) + Hi(b) + (s \div Half), s % Half)

\* MULInstruction::<32>(a, b).lookup_entry(): a * b modulo 2^32, computed on halves
\* and bytes so that no intermediate product leaves the range of a word
MUL_lookup(a, b) ==
    LET byte == Pow2(8)
        al == Lo(a)
        bl == Lo(b)
        p0 == al * (bl % byte)
        p1 == al * (bl \div byte)
        t == p0 + ((p1 % byte) * byte)
        carry == (t \div Half) + (p1 \div byte)
    IN  Word(carry + ((Hi(a) * bl) % Half) + ((al * Hi(b)) % Half), t % Half)

\* ADVICEInstruction::<32>(a).lookup_entry(): the advice itself
ADVICE_lookup(a) == a

\* BEQInstruction(a, b).lookup_entry(): 1 when the operands are equal
BEQ_lookup(a, b) == IF a = b THEN 1 ELSE 0

\* AssertValidSignedRemainderInstruction::<32>(r, y).lookup_entry(): 1 when r = 0 or
\* y = 0, or r and y have the same sign and |r| < |y|
ASSERT_VALID_SIGNED_REMAINDER_lookup(r, y) ==
    IF r = 0 \/ y = 0 THEN 1
    ELSE IF r > 0 /\ y > 0 /\ r < y THEN 1
    ELSE IF r < 0 /\ y < 0 /\ r > y THEN 1
    ELSE 0

\* x as i32 / y as i32 and x as i32 % y as i32: division truncating towards zero; it
\* panics for y = 0 and for IntMin / -1
DivPanics(x, y) == y = 0 \/ (x = IntMin /\ y = -1)

TruncDivPos(x, m) == IF x >= 0 \/ x % m = 0 THEN x \div m ELSE (x \div m) + 1
TruncRemPos(x, m) == IF x >= 0 \/ x % m = 0 THEN x % m ELSE (x % m) - m

\* the division rounding towards minus infinity
TruncDiv_floored(x, y) ==
    IF y > 0 THEN x \div y
    ELSE IF y = IntMin THEN (IF x = IntMin THEN 1 ELSE IF x > 0 THEN -1 ELSE 0)
    ELSE IF x > 0 /\ x % (-y) # 0 THEN (-TruncDivPos(x, -y)) - 1
    ELSE -TruncDivPos(x, -y)

TruncDiv(x, y) ==
    IF y > 0 THEN TruncDivPos(x, y)
    ELSE IF y = IntMin THEN (IF x = IntMin THEN 1 ELSE 0)
    ELSE -TruncDivPos(x, -y)

TruncRem(x, y) ==
    IF y > 0 THEN TruncRemPos(x, y)
    ELSE IF y = IntMin THEN (IF x = IntMin THEN 0 ELSE x)
    ELSE TruncRemPos(x, -y)

\* the match arm with the quotient left as the division gave it
advice_quotient_unadjusted(x, y) ==
    LET quotient == TruncDiv(x, y)
        remainder == TruncRem(x, y)
    IN  IF (remainder < 0 /\ y > 0) \/ (remainder > 0 /\ y < 0)
        THEN <<quotient, remainder + y>>
        ELSE <<quotient, remainder>>

\* the match arm for WORD_SIZE = 32: (quotient, remainder) after the adjustment
advice(x, y) ==
    LET quotient == TruncDiv(x, y)
        remainder == TruncRem(x, y)
    IN  IF (remainder < 0 /\ y > 0) \/ (remainder > 0 /\ y < 0)
        THEN <<quotient - 1, remainder + y>>
        ELSE <<quotient, remainder>>

\* common::constants
REGISTER_COUNT == 64
virtual_register_index(index) == index + 32

ELFInstruction(address, opcode, rs1, rs2, rd, index) ==
    [address |-> address, opcode |-> opcode, rs1 |-> rs1, rs2 |-> rs2, rd |-> rd,
     imm |-> Nothing, virtual_sequence_index |-> Some(index)]

RVTraceRow(instruction, rs1_val, rs2_val, rd_post_val, advice_value) ==
    [instruction |-> instruction,
     register_state |-> [rs1_val |-> rs1_val, rs2_val |-> rs2_val,
                         rd_post_val |-> rd_post_val],
     memory_state |-> Nothing, advice_value |-> advice_value]

\* a different order of the two ADVICE instructions: the remainder first
virtual_sequence_remainder_first(instruction) ==
    LET r_x == instruction.rs1
        r_y == instruction.rs2
        v_0 == Some(virtual_register_index(0))
        v_q == Some(virtual_register_index(1))
        v_qy == Some(virtual_register_index(2))
        a == instruction.address
    IN  << ELFInstruction(a, "VIRTUAL_ADVICE", Nothing, Nothing, instruction.rd, 0),
           ELFInstruction(a, "VIRTUAL_ADVICE", Nothing, Nothing, v_q, 1),
           ELFInstruction(a, "VIRTUAL_ASSERT_VALID_SIGNED_REMAINDER",
                          instruction.rd, r_y, Nothing, 2),
           ELFInstruction(a, "MUL", v_q, r_y, v_qy, 3),
           ELFInstruction(a, "ADD", v_qy, instruction.rd, v_0, 4),
           ELFInstruction(a, "VIRTUAL_ASSERT_EQ", v_0, r_x, Nothing, 5) >>

\* REMInstruction::virtual_sequence: each push takes the length of the sequence so
\* far as its virtual_sequence_index
virtual_sequence(instruction) ==
    LET r_x == instruction.rs1
        r_y == instruction.rs2
        v_0 == Some(virtual_register_index(0))
        v_q == Some(virtual_register_index(1))
        v_qy == Some(virtual_register_index(2))
        a == instruction.address
        s1 == << ELFInstruction(a, "VIRTUAL_ADVICE", Nothing, Nothing, v_q, 0) >>
        s2 == Append(s1, ELFInstruction(a, "VIRTUAL_ADVICE", Nothing, Nothing,
                                        instruction.rd, Len(s1)))
        s3 == Append(s2, ELFInstruction(a, "VIRTUAL_ASSERT_VALID_SIGNED_REMAINDER",
                                        instruction.rd, r_y, Nothing, Len(s2)))
        s4 == Append(s3, ELFInstruction(a, "MUL", v_q, r_y, v_qy, Len(s3)))
        s5 == Append(s4, ELFInstruction(a, "ADD", v_qy, instruction.rd, v_0, Len(s4)))
    IN  Append(s5, ELFInstruction(a, "VIRTUAL_ASSERT_EQ", v_0, r_x, Nothing, Len(s5)))

\* REMInstruction::<32>::virtual_trace: "panic" when the division or the assert on
\* is_valid aborts, the six rows otherwise
virtual_trace(trace_row) ==
    LET x == unwrap(trace_row.register_state.rs1_val)
        y == unwrap(trace_row.register_state.rs2_val)
        virtual_instructions == virtual_sequence(trace_row.instruction)
    IN
    IF DivPanics(x, y) THEN [status |-> "panic", rows |-> <<>>]
    ELSE
    LET quotient == advice(x, y)[1]
        remainder == advice(x, y)[2]
        q == ADVICE_lookup(quotient)
        r == ADVICE_lookup(remainder)
        is_valid == ASSERT_VALID_SIGNED_REMAINDER_lookup(r, y)
        q_y == MUL_lookup(q, y)
        add_0 == ADD_lookup(q_y, r)
    IN
    IF is_valid # 1 THEN [status |-> "panic", rows |-> <<>>]
    ELSE [status |-> "Ok",
          rows |-> << RVTraceRow(virtual_instructions[1], Nothing, Nothing, Some(q),
                                 Some(quotient)),
                      RVTraceRow(virtual_instructions[2], Nothing, Nothing, Some(r),
                                 Some(remainder)),
                      RVTraceRow(virtual_instructions[3], Some(r), Some(y), Nothing,
                                 Nothing),
                      RVTraceRow(virtual_instructions[4], Some(q), Some(y), Some(q_y),
                                 Nothing),
                      RVTraceRow(virtual_instructions[5], Some(q_y), Some(r), Some(add_0),
                                 Nothing),
                      RVTraceRow(virtual_instructions[6], Some(add_0), Some(x), Nothing,
                                 Nothing) >>]

\* RV32I::try_from(&row).lookup_entry(): the output of the row's instruction on the
\* operands the row records
lookup_entry(row) ==
    LET op == row.instruction.opcode
        a == unwrap(row.register_state.rs1_val)
        b == unwrap(row.register_state.rs2_val)
    IN  CASE op = "VIRTUAL_ADVICE" -> ADVICE_lookup(unwrap(row.advice_value))
          [] op = "VIRTUAL_ASSERT_VALID_SIGNED_REMAINDER" ->
                ASSERT_VALID_SIGNED_REMAINDER_lookup(a, b)
          [] op = "MUL" -> MUL_lookup(a, b)
          [] op = "ADD" -> ADD_lookup(a, b)
          [] op = "VIRTUAL_ASSERT_EQ" -> BEQ_lookup(a, b)

\* ------------------------------------------------------------ state machine
VARIABLES
    tau,      \* the SRS secret (discarded after setup; kept here to define the keys)
    pk,       \* HyperKZGProverKey.commit_pp.g1_powers()
    vk,       \* HyperKZGVerifierKey.kzg_vk
    poly,     \* DensePolynomial.Z handed to commit and open
    Cres,     \* the result of commit
    point,    \* the evaluation point handed to open and verify
    ores,     \* the result of open
    ptr,      \* the prover's transcript
    vin,      \* verify's inputs: the claimed value and the proof
    vres,     \* the result of verify
    vtr,      \* the verifier's transcript
    oracle,   \* challenges drawn so far: pairs <<transcript state, scalar>>
    post,     \* the challenges drawn from both transcripts after open / verify
    stage,
    rem_row,  \* the REM trace row handed to virtual_trace
    vtrace,   \* the result of virtual_trace
    registers, \* the register file the rows are executed against
    rpc,      \* the number of rows executed
    outputs,  \* the lookup outputs of the rows executed
    rstage,
    call,     \* one call of a closure of open / verify: its arguments and its result
    par       \* open run task by task: the slots of its parallel phases

kzg_vars == <<tau, pk, vk, poly, Cres, point, ores, ptr, vin, vres, vtr, oracle, post, stage>>
rem_vars == <<rem_row, vtrace, registers, rpc, outputs, rstage>>
aux_vars == <<call, par>>
vars == <<kzg_vars, rem_vars, aux_vars>>

\* no closure call and no task-by-task run is looked at
AuxIdle == call = [fn |-> "none"] /\ par = [phase |-> "idle"]

\* the REM variables while the commitment scheme is looked at
RemIdle ==
    /\ rem_row = Nothing /\ vtrace = [status |-> "none", rows |-> <<>>]
    /\ registers = <<>> /\ rpc = 0 /\ outputs = <<>> /\ rstage = "idle"

Ells == {l \in 0 .. MaxDegree : Pow2(l) <= MaxDegree + 1}
Coeffs == {FFrom(c) : c \in 0 .. MaxCoeff}
Polys == UNION {[1 .. Pow2(l) -> Coeffs] : l \in Ells}
Points == UNION {[1 .. l -> F] : l \in Ells}

None == [status |-> "none"]

\* the challenges drawn so far with the one drawn at transcript state t added
Record(orc, t, c) == orc \cup {<<t, c>>}

\* HyperKZGSRS::setup(rng, MaxDegree) and trim(max_degree), max_degree in degrees
InitWith(degrees) ==
    /\ tau \in F \ {FZero}
    /\ \E max_degree \in degrees :
          /\ pk = trim(tau, max_degree).pk
          /\ vk = trim(tau, max_degree).vk
    /\ poly = <<>> /\ Cres = None /\ point = <<>> /\ ores = None
    /\ ptr = NewTranscript /\ vtr = NewTranscript
    /\ vin = None /\ vres = None
    /\ oracle = {} /\ post = <<>>
    /\ stage = "setup"
    /\ RemIdle
    /\ AuxIdle

\* the keys of the tests: trimmed to the degree the SRS was set up with
Init == InitWith({MaxDegree})

\* keys trimmed to any degree the SRS supports
InitKey == InitWith(0 .. MaxDegree)

Commit(Z) ==
    /\ stage = "setup"
    /\ poly' = Z
    /\ Cres' = commit(pk, Z)
    /\ stage' = "committed"
    /\ UNCHANGED <<tau, pk, vk, point, ores, ptr, vin, vres, vtr, oracle, post>>
    /\ UNCHANGED <<rem_vars, aux_vars>>

\* the values a challenge drawn at transcript state t can take
Draw(orc, t) ==
    IF \E c \in F : <<t, c>> \in orc THEN {c \in F : <<t, c>> \in orc} ELSE F

\* open(pk, transcript, poly, point, _eval); the claimed value _eval is ignored by
\* open, so it is no input of this action. (A value bound by \E over a one-element
\* set is computed once.)
Open(x) ==
    /\ stage = "committed"
    /\ \E p1 \in {open_commit_phase(pk, ptr, poly, x)} :
       IF p1.status = "panic"
       THEN /\ ores' = [status |-> "panic", proof |-> <<>>]
            /\ UNCHANGED <<ptr, oracle>>
       ELSE
       \E r \in Draw(oracle, p1.tr) :
          \E o1 \in {Record(oracle, p1.tr, r)}, u \in {points_of(r)} :
          \E p2 \in {kzg_open_batch_evals(p1.polys, u, p1.tr)} :
          \E q \in Draw(o1, p2.tr) :
             \E o2 \in {Record(o1, p2.tr, q)},
                p3 \in {kzg_open_batch_witnesses(pk, p1.polys, u, q, p2.tr)} :
             IF p3.status = "panic"
             THEN /\ ores' = [status |-> "panic", proof |-> <<>>]
                  /\ ptr' = p2.tr
                  /\ oracle' = o2
             ELSE
             \E d_0 \in Draw(o2, p3.tr) :
                /\ ores' = [status |-> "Ok",
                            proof |-> [com |-> p1.com, w |-> p3.w, v |-> p2.v]]
                /\ ptr' = p3.tr
                /\ oracle' = Record(o2, p3.tr, d_0)
    /\ point' = x
    /\ stage' = "opened"
    /\ UNCHANGED <<tau, pk, vk, poly, Cres, vin, vres, vtr, post>>
    /\ UNCHANGED <<rem_vars, aux_vars>>

\* verify(vk, transcript, C, point, P_of_x, pi). consistency / pairing of vres
\* tell whether the consistency loop and the pairing equation were reached, r is
\* the challenge verify drew after appending pi.com.
VerifyWith(y, pi) ==
    /\ stage = "opened"
    /\ Cres.ok
    /\ \E t \in {verify_transcripts(vtr, pi)} :
       \E r \in Draw(oracle, t[1]) :
       \E o1 \in {Record(oracle, t[1], r)},
          h \in {verify_checks(Cres.val, point, y, pi, r)} :
          IF h.status = "InternalError"
          THEN /\ vres' = [status |-> "InternalError", consistency |-> h.consistency,
                           pairing |-> FALSE, r |-> r]
               /\ vtr' = t[1]
               /\ oracle' = o1
          ELSE
          \E q \in Draw(o1, t[2]) :
          \E o2 \in {Record(o1, t[2], q)} :
          \E d_0 \in Draw(o2, t[3]) :
             /\ vres' = [status |-> kzg_verify_batch(vk, <<Cres.val>> \o pi.com, pi.w,
                                                     points_of(r), pi.v, q, d_0),
                         consistency |-> TRUE, pairing |-> Len(pi.w) = 3, r |-> r]
             /\ vtr' = t[3]
             /\ oracle' = Record(o2, t[3], d_0)
    /\ vin' = [status |-> "given", y |-> y, pi |-> pi]
    /\ stage' = "verified"
    /\ UNCHANGED <<tau, pk, vk, poly, Cres, point, ores, ptr, post>>
    /\ UNCHANGED <<rem_vars, aux_vars>>

\* verify on the proof open returned, as the tests' test_inner does
Verify(y) ==
    /\ ores.status = "Ok"
    /\ VerifyWith(y, ores.proof)

\* the tests' post_c_p / post_c_v: one more challenge from each transcript
PostChallenge ==
    /\ stage = "verified"
    /\ vres.status = "Ok"
    /\ \E sp \in {challenge_state(ptr, "c")}, sv \in {challenge_state(vtr, "c")} :
       \E cp \in Draw(oracle, sp) :
       \E o1 \in {Record(oracle, sp, cp)} :
       \E cv \in Draw(o1, sv) :
          /\ post' = <<cp, cv>>
          /\ ptr' = sp
          /\ vtr' = sv
          /\ oracle' = Record(o1, sv, cv)
    /\ stage' = "post"
    /\ UNCHANGED <<tau, pk, vk, poly, Cres, point, ores, vin, vres>>
    /\ UNCHANGED <<rem_vars, aux_vars>>

Next ==
    \/ stage = "setup" /\ \E Z \in Polys : Commit(Z)
    \/ stage = "committed" /\ \E x \in Points : Open(x)
    \/ stage = "opened" /\ \E y \in F : Verify(y)
    \/ PostChallenge

Spec == Init /\ [][Next]_vars

\* commit and open under keys of every length
NextKey ==
    \/ stage = "setup" /\ \E Z \in Polys : Commit(Z)
    \/ stage = "committed" /\ \E x \in Points : Open(x)

SpecKey == InitKey /\ [][NextKey]_vars

\* ----------------------------------------------------- verify, altered proofs
\* s with its k-th element replaced by e
Replace(s, k, e) == vec([i \in 1 .. Len(s) |-> IF i = k THEN e ELSE s[i]])
DropLast(s) == SubSeq(s, 1, Len(s) - 1)

\* proofs that differ from pi in the evaluation matrix v only: one entry changed,
\* or row v[0] overwritten with row v[1] (the alteration of test_hyperkzg_small)
AlteredEvaluations(pi) ==
    {[pi EXCEPT !.v = Replace(pi.v, j, Replace(pi.v[j], i, e))] :
        <<j, i, e>> \in {t \in (1 .. Len(pi.v)) \X (1 .. Len(pi.v[1])) \X F :
                            t[3] # pi.v[t[1]][t[2]]}}
      \cup {[pi EXCEPT !.v = Replace(pi.v, 1, pi.v[2])]}

\* proofs that differ from pi in the shape of v or in the length of w
Misshapen(pi) ==
    {[pi EXCEPT !.v = DropLast(pi.v)],
     [pi EXCEPT !.v = Append(pi.v, pi.v[1])],
     [pi EXCEPT !.v = Replace(pi.v, 2, DropLast(pi.v[2]))],
     [pi EXCEPT !.v = Replace(pi.v, 3, Append(pi.v[3], FOne))],
     [pi EXCEPT !.w = DropLast(pi.w)],
     [pi EXCEPT !.w = Append(pi.w, G1Gen)]}

\* verify of the true value P(x) with a proof whose evaluations were altered
VerifyAltered ==
    /\ stage = "opened"
    /\ ores.status = "Ok"
    /\ \E y \in {evaluate(poly, point)}, pi \in AlteredEvaluations(ores.proof) :
          VerifyWith(y, pi)

\* verify of any value with a proof of another shape
VerifyMisshapen ==
    /\ stage = "opened"
    /\ ores.status = "Ok"
    /\ \E y \in F, pi \in Misshapen(ores.proof) : VerifyWith(y, pi)

NextAltered ==
    \/ stage = "setup" /\ \E Z \in Polys : Commit(Z)
    \/ stage = "committed" /\ \E x \in Points : Open(x)
    \/ VerifyAltered

SpecAltered == Init /\ [][NextAltered]_vars

NextMisshapen ==
    \/ stage = "setup" /\ \E Z \in Polys : Commit(Z)
    \/ stage = "committed" /\ \E x \in Points : Open(x)
    \/ VerifyMisshapen

SpecMisshapen == Init /\ [][NextMisshapen]_vars

\* ----------------------------------------------- REM: the register-file run
\* register indices 0..MaxReg, addresses 0..MaxAddress, operands of magnitude up
\* to MaxWord
MaxReg == 2
MaxAddress == 1
MaxWord == 7

\* 32-bit words: the small ones and the two extremes
Words == (-MaxWord .. MaxWord) \cup {IntMin, IntMax}

\* the REM trace rows of rem_virtual_sequence_32: registers r_x, r_y, rd, operands x
\* and y (y = x when r_x = r_y), rd_post_val the remainder where it is defined
RemRows ==
    {RVTraceRow([address |-> a, opcode |-> "REM", rs1 |-> Some(r_x), rs2 |-> Some(r_y),
                 rd |-> Some(rd), imm |-> Nothing, virtual_sequence_index |-> Nothing],
                Some(x), Some(y),
                IF DivPanics(x, y) THEN Nothing ELSE Some(advice(x, y)[2]),
                Nothing) :
        <<a, r_x, r_y, rd, x, y>> \in
            {t \in (0 .. MaxAddress) \X (0 .. MaxReg) \X (0 .. MaxReg) \X (0 .. MaxReg)
                     \X Words \X Words : t[2] = t[3] => t[5] = t[6]}}

\* the KZG variables while the REM run is looked at
KzgIdle ==
    /\ tau = FOne
    /\ pk = trim(FOne, MaxDegree).pk /\ vk = trim(FOne, MaxDegree).vk
    /\ poly = <<>> /\ Cres = None /\ point = <<>> /\ ores = None
    /\ ptr = NewTranscript /\ vtr = NewTranscript
    /\ vin = None /\ vres = None
    /\ oracle = {} /\ post = <<>>
    /\ stage = "idle"

InitREM ==
    /\ KzgIdle
    /\ AuxIdle
    /\ rem_row \in RemRows
    /\ vtrace = [status |-> "none", rows |-> <<>>]
    /\ registers = <<>>
    /\ rpc = 0
    /\ outputs = <<>>
    /\ rstage = "start"

\* REMInstruction::<32>::virtual_trace(rem_trace_row), then the register file of
\* the test: zero but for registers[r_x] = x and registers[r_y] = y
VirtualTrace ==
    /\ rstage = "start"
    /\ \E t \in {virtual_trace(rem_row)} :
          /\ vtrace' = t
          /\ IF t.status = "panic"
             THEN /\ rstage' = "panic"
                  /\ UNCHANGED registers
             ELSE /\ rstage' = "run"
                  /\ registers' =
                        [i \in 0 .. (REGISTER_COUNT - 1) |->
                            IF i = unwrap(rem_row.instruction.rs2)
                            THEN unwrap(rem_row.register_state.rs2_val)
                            ELSE IF i = unwrap(rem_row.instruction.rs1)
                            THEN unwrap(rem_row.register_state.rs1_val)
                            ELSE 0]
    /\ UNCHANGED <<rem_row, rpc, outputs>>
    /\ UNCHANGED <<kzg_vars, aux_vars>>

\* one turn of the test's loop over the rows: the row's lookup output is written to
\* its rd when it has one. The loop's assertions are the properties stated about
\* the run; they are not part of the step.
ExecuteRow ==
    /\ rstage = "run"
    /\ rpc < Len(vtrace.rows)
    /\ \E row \in {vtrace.rows[rpc + 1]} :
       \E output \in {lookup_entry(row)} :
          /\ registers' = IF row.instruction.rd # Nothing
                          THEN [registers EXCEPT ![unwrap(row.instruction.rd)] = output]
                          ELSE registers
          /\ outputs' = Append(outputs, output)
    /\ rpc' = rpc + 1
    /\ UNCHANGED <<rem_row, vtrace, rstage>>
    /\ UNCHANGED <<kzg_vars, aux_vars>>

NextREM == VirtualTrace \/ ExecuteRow

SpecREM == InitREM /\ [][NextREM]_vars

\* ------------------------------------------------------------------ fold tower
\* test_hyperkzg_large: setup(rng, n) and trim(n) for n = 2^ell, then commit and
\* open on a polynomial of up to 2^MaxEll entries. The polynomials are the indicator
\* vectors, which bind every coordinate of x to one bit of the index; the secret of
\* the SRS is one value, the tower not depending on it
MaxEll == 3

TowerPolys ==
    UNION {{[i \in 1 .. Pow2(l) |-> IF i = k THEN FOne ELSE FZero] : k \in 1 .. Pow2(l)} :
              l \in 1 .. MaxEll}
TowerPoints == UNION {[1 .. l -> F] : l \in 1 .. MaxEll}

InitTower == InitWith({Pow2(MaxEll)}) /\ tau = FOne

NextTower ==
    \/ stage = "setup" /\ \E Z \in TowerPolys : Commit(Z)
    \/ stage = "committed" /\ \E x \in TowerPoints : Open(x)

SpecTower == InitTower /\ [][NextTower]_vars

\* ------------------------------------------------------- the closures of open
\* kzg_open and poly_eval called on a coefficient vector f of up to MaxWitnessLen
\* entries and a point u, under a key long enough for the witness polynomial
MaxWitnessLen == 4

WitnessVectors == UNION {[1 .. d -> F] : d \in 1 .. MaxWitnessLen}

InitWitness ==
    /\ tau \in F \ {FZero}
    /\ pk = trim(tau, MaxWitnessLen).pk /\ vk = trim(tau, MaxWitnessLen).vk
    /\ poly = <<>> /\ Cres = None /\ point = <<>> /\ ores = None
    /\ ptr = NewTranscript /\ vtr = NewTranscript
    /\ vin = None /\ vres = None
    /\ oracle = {} /\ post = <<>>
    /\ stage = "idle"
    /\ RemIdle
    /\ par = [phase |-> "idle"]
    /\ \E f \in WitnessVectors, u \in F : call = [fn |-> "args", f |-> f, u |-> u]

\* kzg_open(f, u): the witness polynomial h and its commitment, unwrap()ped
KzgOpen ==
    /\ call.fn = "args"
    /\ \E h \in {compute_witness_polynomial(call.f, call.u)} :
          call' = [fn |-> "kzg_open", f |-> call.f, u |-> call.u, h |-> h,
                   w |-> UnivariateKZG_commit(pk, h)]
    /\ UNCHANGED <<kzg_vars, rem_vars, par>>

\* poly_eval(f, u)
PolyEval ==
    /\ call.fn = "args"
    /\ call' = [fn |-> "poly_eval", f |-> call.f, u |-> call.u,
                v |-> poly_eval(call.f, call.u)]
    /\ UNCHANGED <<kzg_vars, rem_vars, par>>

NextWitness == KzgOpen \/ PolyEval

SpecWitness == InitWitness /\ [][NextWitness]_vars

\* ------------------------------------------------- the closure kzg_verify_batch
\* kzg_verify_batch called on k <= MaxBatch commitments, three witnesses, three
\* points, a 3 x k matrix of evaluations and the challenges q and d_0. The group
\* elements and evaluations (k + 3 + 3k values) have at most two entries that are
\* not zero; points, challenges and SRS secret are arbitrary.
MaxBatch == 2

\* the vectors of F^n with at most two entries that are not zero
Sparse(n) ==
    {[i \in 1 .. n |-> IF i = a THEN c ELSE IF i = b THEN e ELSE FZero] :
        <<a, b, c, e>> \in (1 .. n) \X (1 .. n) \X F \X F}

\* the arguments: the first k entries of s are C, the next three W, the rest the
\* rows of v
BatchArgs(k, s, u, q, d_0) ==
    [fn |-> "args",
     C |-> SubSeq(s, 1, k),
     W |-> SubSeq(s, k + 1, k + 3),
     v |-> vec([j \in 1 .. 3 |-> SubSeq(s, k + 4 + ((j - 1) * k), k + 3 + (j * k))]),
     u |-> u, q |-> q, d_0 |-> d_0]

InitBatch ==
    /\ tau \in F \ {FZero}
    /\ pk = trim(tau, MaxDegree).pk /\ vk = trim(tau, MaxDegree).vk
    /\ poly = <<>> /\ Cres = None /\ point = <<>> /\ ores = None
    /\ ptr = NewTranscript /\ vtr = NewTranscript
    /\ vin = None /\ vres = None
    /\ oracle = {} /\ post = <<>>
    /\ stage = "idle"
    /\ RemIdle
    /\ par = [phase |-> "idle"]
    /\ \E k \in 1 .. MaxBatch :
       \E s \in Sparse((4 * k) + 3), u \in [1 .. 3 -> F], q \in F, d_0 \in F :
          call = BatchArgs(k, s, u, q, d_0)

\* kzg_verify_batch(vk, C, W, u, v, transcript) with the challenges q and d_0
KzgVerifyBatch ==
    /\ call.fn = "args"
    /\ call' = [call EXCEPT !.fn = "kzg_verify_batch"]
                  @@ [result |-> kzg_verify_batch(vk, call.C, call.W, call.u, call.v,
                                                   call.q, call.d_0)]
    /\ UNCHANGED <<kzg_vars, rem_vars, par>>

NextBatch == KzgVerifyBatch

SpecBatch == InitBatch /\ [][NextBatch]_vars

\* ------------------------------------------------- open, one task at a time
\* The parallel phases of open run task by task, in any order: the entries of a
\* fold (par_iter_mut), the fold commitments (into_par_iter ... collect), the
\* evaluations v[i][j] (nested par_iter_mut) and the three witness openings
\* (into_par_iter ... collect). A task fills one slot; the code after a phase runs
\* once the phase's tasks have all returned.
EmptySlots(n) == vec([i \in 1 .. n |-> Nothing])
Filled(slots) == \A i \in 1 .. Len(slots) : slots[i] # Nothing
Values(slots) == vec([i \in 1 .. Len(slots) |-> unwrap(slots[i])])

\* collect taking the results in the order the tasks finished
collect_in_completion_order(slots, order) ==
    vec([i \in 1 .. Len(slots) |-> unwrap(slots[order[i]])])

\* collect() of an indexed parallel iterator: the results in index order, whatever
\* order the tasks finished in
collect(slots, order) == vec([i \in 1 .. Len(slots) |-> unwrap(slots[i])])

\* the polynomials and points open is run on: the multiples of the indicator vectors
\* of 2^l entries, and the points of l >= 1 coordinates
ParPolys ==
    UNION {{[i \in 1 .. Pow2(l) |-> IF i = k THEN c ELSE FZero] :
                k \in 1 .. Pow2(l), c \in Coeffs} : l \in Ells \ {0}}
ParInputs == {<<Z, x>> \in ParPolys \X Points : Len(Z) = Pow2(Len(x))}

\* open's state on entry: polys = [Z], the first fold not yet computed
ParStart(Z, x) ==
    [phase |-> IF Len(x) = 1 THEN "commit" ELSE "fold",
     polys |-> <<Z>>,
     Pi |-> IF Len(x) = 1 THEN <<>> ELSE EmptySlots(Len(Z) \div 2),
     com |-> EmptySlots(Len(x) - 1), com_order |-> <<>>, com_vec |-> <<>>,
     r |-> Nothing,
     v |-> <<>>, v_vec |-> <<>>,
     q |-> Nothing, B |-> <<>>,
     w |-> <<>>, w_order |-> <<>>]

InitPar ==
    /\ tau = FOne
    /\ pk = trim(tau, MaxDegree).pk /\ vk = trim(tau, MaxDegree).vk
    /\ \E in \in ParInputs :
          /\ poly = in[1] /\ point = in[2]
          /\ Cres = commit(pk, in[1])
          /\ par = ParStart(in[1], in[2])
    /\ ores = None
    /\ ptr = NewTranscript /\ vtr = NewTranscript
    /\ vin = None /\ vres = None
    /\ oracle = {} /\ post = <<>>
    /\ stage = "committed"
    /\ RemIdle
    /\ call = [fn |-> "none"]

\* what no step of the task-by-task run changes
ParFrame == UNCHANGED <<tau, pk, vk, poly, Cres, point, vin, vres, vtr, post, call, rem_vars>>

\* one task of Pi.par_iter_mut().enumerate().for_each: entry j of the fold of
\* polys[i] with x[ell - i - 1]
FoldTask(j) ==
    /\ par.phase = "fold"
    /\ j \in 1 .. Len(par.Pi)
    /\ par.Pi[j] = Nothing
    /\ \E i \in {Len(par.polys) - 1} :
       \E P \in {par.polys[i + 1]}, xv \in {point[Len(point) - i]} :
          par' = [par EXCEPT !.Pi[j] =
                     Some(FAdd(FMul(xv, FSub(P[2 * j], P[(2 * j) - 1])), P[(2 * j) - 1]))]
    /\ UNCHANGED <<ores, ptr, oracle, stage>>
    /\ ParFrame

\* polys.push(Pi) once for_each has returned, and the next turn of the loop
FoldJoin ==
    /\ par.phase = "fold"
    /\ Filled(par.Pi)
    /\ \E polys \in {Append(par.polys, Values(par.Pi))} :
          par' = IF Len(polys) = Len(point)
                 THEN [par EXCEPT !.polys = polys, !.Pi = <<>>, !.phase = "commit"]
                 ELSE [par EXCEPT !.polys = polys,
                                  !.Pi = EmptySlots(Len(par.Pi) \div 2)]
    /\ UNCHANGED <<ores, ptr, oracle, stage>>
    /\ ParFrame

\* one task of (1..polys.len()).into_par_iter().map: the commitment to polys[i],
\* unwrap()ped
CommitTask(i) ==
    /\ par.phase = "commit"
    /\ i \in 1 .. Len(par.com)
    /\ par.com[i] = Nothing
    /\ \E c \in {UnivariateKZG_commit(pk, par.polys[i + 1])} :
          IF c.ok
          THEN /\ par' = [par EXCEPT !.com[i] = Some(c.val),
                                     !.com_order = Append(par.com_order, i)]
               /\ UNCHANGED <<ores, stage>>
          ELSE /\ par' = [par EXCEPT !.phase = "panic"]
               /\ ores' = [status |-> "panic", proof |-> <<>>]
               /\ stage' = "opened"
    /\ UNCHANGED <<ptr, oracle>>
    /\ ParFrame

\* collect(), then Phase 2: append "c", the challenge r, and the slots of v
CommitJoin ==
    /\ par.phase = "commit"
    /\ Filled(par.com)
    /\ \E com \in {collect(par.com, par.com_order)} :
       \E tr \in {challenge_state(append_points(ptr, "c", com), "c")} :
       \E r \in Draw(oracle, tr) :
          /\ ptr' = tr
          /\ oracle' = Record(oracle, tr, r)
          /\ par' = [par EXCEPT !.phase = "evals", !.com_vec = com, !.r = Some(r),
                                !.v = vec([i \in 1 .. 3 |-> EmptySlots(Len(par.polys))])]
    /\ UNCHANGED <<ores, stage>>
    /\ ParFrame

\* one task of the nested par_iter_mut of kzg_open_batch: v[i][j] = poly_eval(f_j, u_i)
EvalTask(i, j) ==
    /\ par.phase = "evals"
    /\ i \in 1 .. 3 /\ j \in 1 .. Len(par.polys)
    /\ par.v[i][j] = Nothing
    /\ par' = [par EXCEPT !.v[i][j] =
                  Some(poly_eval(par.polys[j], points_of(unwrap(par.r))[i]))]
    /\ UNCHANGED <<ores, ptr, oracle, stage>>
    /\ ParFrame

\* append "v" row by row, the challenge q, the batch polynomial B, the slots of w
EvalJoin ==
    /\ par.phase = "evals"
    /\ \A i \in 1 .. 3 : Filled(par.v[i])
    /\ \E v \in {vec([i \in 1 .. 3 |-> Values(par.v[i])])} :
       \E tr \in {challenge_state(append_scalars(ptr, "v", Flatten(v)), "r")} :
       \E q \in Draw(oracle, tr) :
          /\ ptr' = tr
          /\ oracle' = Record(oracle, tr, q)
          /\ par' = [par EXCEPT !.phase = "witness", !.v_vec = v, !.q = Some(q),
                                !.B = kzg_compute_batch_polynomial(par.polys, q),
                                !.w = EmptySlots(3)]
    /\ UNCHANGED <<ores, stage>>
    /\ ParFrame

\* one task of u.into_par_iter().map(|ui| kzg_open(&B, *ui)), unwrap()ped
WitnessTask(j) ==
    /\ par.phase = "witness"
    /\ j \in 1 .. 3
    /\ par.w[j] = Nothing
    /\ \E c \in {kzg_open(pk, par.B, points_of(unwrap(par.r))[j])} :
          IF c.ok
          THEN /\ par' = [par EXCEPT !.w[j] = Some(c.val),
                                     !.w_order = Append(par.w_order, j)]
               /\ UNCHANGED <<ores, stage>>
          ELSE /\ par' = [par EXCEPT !.phase = "panic"]
               /\ ores' = [status |-> "panic", proof |-> <<>>]
               /\ stage' = "opened"
    /\ UNCHANGED <<ptr, oracle>>
    /\ ParFrame

\* collect(), append "W", the challenge d_0, and open's return
WitnessJoin ==
    /\ par.phase = "witness"
    /\ Filled(par.w)
    /\ \E w \in {collect(par.w, par.w_order)} :
       \E tr \in {challenge_state(append_points(ptr, "W", w), "d")} :
       \E d_0 \in Draw(oracle, tr) :
          /\ ptr' = tr
          /\ oracle' = Record(oracle, tr, d_0)
          /\ ores' = [status |-> "Ok",
                      proof |-> [com |-> par.com_vec, w |-> w, v |-> par.v_vec]]
    /\ par' = [par EXCEPT !.phase = "done"]
    /\ stage' = "opened"
    /\ ParFrame

NextPar ==
    \/ \E j \in 1 .. (Pow2(MaxDegree) \div 2) : FoldTask(j)
    \/ FoldJoin
    \/ \E i \in 1 .. MaxDegree : CommitTask(i)
    \/ CommitJoin
    \/ \E i \in 1 .. 3, j \in 1 .. MaxDegree : EvalTask(i, j)
    \/ EvalJoin
    \/ \E j \in 1 .. 3 : WitnessTask(j)
    \/ WitnessJoin

SpecPar == InitPar /\ [][NextPar]_vars

\* ------------------------------------------------------------------ claims
\* verify has run on the proof open returned
HonestRun == stage \in {"verified", "post"} /\ vin.pi = ores.proof
\* the challenge r verify derived after appending the proof's com
VerifierR == vres.r

\* C1 as stated: verify accepts the honest proof of the true value P(x), for
\* every polynomial and every challenge
C1_Completeness ==
    HonestRun /\ vin.y = evaluate(poly, point) => vres.status = "Ok"

\* C1 amended: verify accepts the honest proof of the true value P(x) whenever
\* the commitment is not the identity and the challenge r is not zero
C1_CompletenessNontrivial ==
    HonestRun /\ vin.y = evaluate(poly, point)
              /\ Cres.val # G1Zero /\ VerifierR # FZero
        => vres.status = "Ok"

\* C1 witness: an accepted honest proof for l = 2 with a non-trivial fold commitment
C1_Witness ==
    /\ HonestRun /\ vin.y = evaluate(poly, point)
    /\ Len(point) = 2 /\ \E i \in 1 .. Len(ores.proof.com) : ores.proof.com[i] # G1Zero
    /\ Cres.val # G1Zero /\ VerifierR # FZero
    /\ vres.status = "Ok" /\ vres.pairing

\* C2: verify rejects the honest proof with a claimed value other than P(x)
C2_WrongEvaluationRejected ==
    HonestRun /\ vin.y # evaluate(poly, point) => vres.status = "InternalError"

\* C2 witness: a wrong value for l = 2 rejected by the consistency loop
C2_Witness ==
    /\ HonestRun /\ vin.y # evaluate(poly, point)
    /\ Len(point) = 2 /\ Cres.val # G1Zero /\ VerifierR # FZero
    /\ vres.status = "InternalError" /\ vres.consistency /\ ~vres.pairing

\* C3: after open and an accepting verify of its proof the two transcripts have
\* seen the same operations, and the next challenge drawn from each is the same
C3_TranscriptSynchrony ==
    /\ HonestRun /\ stage = "verified" /\ vres.status = "Ok" => ptr = vtr
    /\ HonestRun /\ stage = "post" => post[1] = post[2] /\ ptr = vtr

\* C3 witness: both transcripts went through all six operations and the next
\* challenges were drawn
C3_Witness ==
    /\ HonestRun /\ stage = "post" /\ Len(point) = 2
    /\ post[1] = post[2] /\ post[1] # FZero
    /\ Len(vtr) = 8

\* verify has run on a proof that has open's com and w and an evaluation matrix of
\* the same shape with other entries
AlteredProof ==
    /\ stage = "verified" /\ ores.status = "Ok"
    /\ vin.pi.com = ores.proof.com /\ vin.pi.w = ores.proof.w
    /\ shape_ok(vin.pi.v, Len(point))
    /\ vin.pi.v # ores.proof.v

\* ... and on the true value P(x)
AlteredRun == AlteredProof /\ vin.y = evaluate(poly, point)

YposWeight(k) ==
    LET xk == point[Len(point) - k]
    IN  FAdd(FMul(VerifierR, FSub(FOne, xk)), xk)

\* an entry v[2][k+1] read by the consistency equation k was changed, v[0][k] and
\* v[1][k] were not
AlteredY ==
    \E k \in 0 .. (Len(point) - 2) :
        /\ vin.pi.v[3][k + 2] # ores.proof.v[3][k + 2]
        /\ vin.pi.v[1][k + 1] = ores.proof.v[1][k + 1]
        /\ vin.pi.v[2][k + 1] = ores.proof.v[2][k + 1]

\* row v[0] was overwritten with row v[1], which changed an entry whose weight in
\* its consistency equation is not zero
OverwrittenYpos ==
    /\ vin.pi.v = Replace(ores.proof.v, 1, ores.proof.v[2])
    /\ \E k \in 0 .. (Len(point) - 1) :
          ores.proof.v[1][k + 1] # ores.proof.v[2][k + 1] /\ YposWeight(k) # FZero

VerifyRun == stage = "verified" /\ vin.status = "given"

\* C5: verify returns InternalError before its consistency loop and its pairing
\* check when r = 0, or C is the identity, or v has not 3 rows, or a row of v has
\* not length ell
C5_EarlyRejection ==
    VerifyRun /\ (\/ VerifierR = FZero
                  \/ Cres.val = G1Zero
                  \/ Len(vin.pi.v) # 3
                  \/ \E j \in 1 .. Len(vin.pi.v) : Len(vin.pi.v[j]) # Len(point))
        => vres.status = "InternalError" /\ ~vres.consistency /\ ~vres.pairing

\* C5 witness: a row of v too short, rejected although r # 0, C # identity and the
\* claimed value is P(x)
C5_Witness ==
    /\ VerifyRun /\ VerifierR # FZero /\ Cres.val # G1Zero
    /\ Len(vin.pi.v) = 3 /\ Len(vin.pi.v[2]) # Len(point)
    /\ vin.y = evaluate(poly, point)
    /\ vres.status = "InternalError" /\ ~vres.consistency /\ ~vres.pairing

\* C6 as stated: verify returns Ok or InternalError for every proof, and never aborts
C6_NeverAborts == VerifyRun => vres.status \in {"Ok", "InternalError"}

\* C7 as stated: with a prover key shorter than the polynomial, commit returns
\* KeyLengthError(key length, polynomial length) and open returns an error too,
\* leaving the transcript as it was
C7_KeyTooShort ==
    Len(pk) < Len(poly) =>
        /\ stage # "setup" =>
              ~Cres.ok /\ Cres.err = <<"KeyLengthError", Len(pk), Len(poly)>>
        /\ stage = "opened" /\ Len(poly) = Pow2(Len(point)) /\ Len(point) >= 1 =>
              ores.status = "Err" /\ ptr = NewTranscript

\* the REM instruction and its operands
RemInstr == rem_row.instruction
RemRs1 == unwrap(RemInstr.rs1)
RemRs2 == unwrap(RemInstr.rs2)
RemRd == unwrap(RemInstr.rd)
RemX == unwrap(rem_row.register_state.rs1_val)
RemY == unwrap(rem_row.register_state.rs2_val)

\* C8: virtual_sequence returns six instructions with the REM's address, numbered
\* 0..5, with the opcodes and registers of the table (v_0, v_q, v_qy the virtual
\* registers 0, 1, 2), and the rows virtual_trace returns carry exactly these
C8_SequenceShape ==
    rstage # "idle" =>
        LET s == virtual_sequence(RemInstr)
            v_0 == Some(virtual_register_index(0))
            v_q == Some(virtual_register_index(1))
            v_qy == Some(virtual_register_index(2))
            Is(k, opcode, rs1, rs2, rd) ==
                /\ s[k].opcode = opcode /\ s[k].rs1 = rs1 /\ s[k].rs2 = rs2 /\ s[k].rd = rd
        IN  /\ Len(s) = 6
            /\ \A k \in 1 .. 6 : /\ s[k].address = RemInstr.address
                                 /\ s[k].virtual_sequence_index = Some(k - 1)
            /\ Is(1, "VIRTUAL_ADVICE", Nothing, Nothing, v_q)
            /\ Is(2, "VIRTUAL_ADVICE", Nothing, Nothing, RemInstr.rd)
            /\ Is(3, "VIRTUAL_ASSERT_VALID_SIGNED_REMAINDER", RemInstr.rd, RemInstr.rs2, Nothing)
            /\ Is(4, "MUL", v_q, RemInstr.rs2, v_qy)
            /\ Is(5, "ADD", v_qy, RemInstr.rd, v_0)
            /\ Is(6, "VIRTUAL_ASSERT_EQ", v_0, RemInstr.rs1, Nothing)
            /\ vtrace.status = "Ok" =>
                  /\ Len(vtrace.rows) = 6
                  /\ \A k \in 1 .. 6 : vtrace.rows[k].instruction = s[k]

\* C8 witness: virtual_trace has returned its six rows for a REM with rd = rs1
C8_Witness ==
    /\ rstage = "run" /\ vtrace.status = "Ok" /\ Len(vtrace.rows) = 6
    /\ RemRd = RemRs1 /\ RemRs1 # RemRs2 /\ RemInstr.address # 0
    /\ vtrace.rows[2].instruction.rd = RemInstr.rd
    /\ vtrace.rows[6].instruction.rs2 = RemInstr.rs1

\* C9 as stated: after the six rows the destination register holds the remainder,
\* registers rs1 and rs2 hold x and y, every other register below 32 is zero and
\* both assert rows have put out 1, whatever rs1, rs2 and rd are
C9_RunEndsWithRemainder ==
    rstage = "run" /\ rpc = 6 =>
        /\ registers[RemRd] = unwrap(vtrace.rows[2].advice_value)
        /\ registers[RemRs1] = RemX
        /\ registers[RemRs2] = RemY
        /\ \A i \in 0 .. 31 : i \notin {RemRd, RemRs1, RemRs2} => registers[i] = 0
        /\ outputs[3] = 1 /\ outputs[6] = 1

\* C10 as stated: before each row is executed the operands it records are what the
\* register file holds at its rs1 and rs2, and the rd_post_val of each row executed
\* is the value that was written
C10_TraceConsistency ==
    rstage = "run" =>
        /\ rpc < 6 =>
              LET row == vtrace.rows[rpc + 1]
              IN  /\ row.register_state.rs1_val # Nothing =>
                        registers[unwrap(row.instruction.rs1)]
                            = unwrap(row.register_state.rs1_val)
                  /\ row.register_state.rs2_val # Nothing =>
                        registers[unwrap(row.instruction.rs2)]
                            = unwrap(row.register_state.rs2_val)
        /\ \A k \in 1 .. rpc :
              vtrace.rows[k].instruction.rd # Nothing =>
                  outputs[k] = unwrap(vtrace.rows[k].register_state.rd_post_val)

\* the advice of the rows virtual_trace returned
AdviceQ == unwrap(vtrace.rows[1].advice_value)
AdviceR == unwrap(vtrace.rows[2].advice_value)
\* the adjustment of the match arm fires on these operands
Adjusts(x, y) ==
    (TruncRem(x, y) < 0 /\ y > 0) \/ (TruncRem(x, y) > 0 /\ y < 0)

C13_DivisionByZero ==
    rstage \in {"run", "panic"} /\ RemY = 0 =>
        /\ vtrace.status = "Ok"
        /\ Len(vtrace.rows) = 6
        /\ AdviceQ = 0 /\ AdviceR = RemX
        /\ ASSERT_VALID_SIGNED_REMAINDER_lookup(AdviceR, RemY) = 1

\* C14 as stated: for x = INT_MIN and y = -1 virtual_trace returns six rows with
\* the advice q = INT_MIN and r = 0, so that q * y + r = x modulo 2^32
C14_SignedOverflow ==
    rstage \in {"run", "panic"} /\ RemX = IntMin /\ RemY = -1 =>
        /\ vtrace.status = "Ok"
        /\ Len(vtrace.rows) = 6
        /\ AdviceQ = IntMin /\ AdviceR = 0
        /\ ADD_lookup(MUL_lookup(AdviceQ, RemY), AdviceR) = RemX

\* open has run on a polynomial of 2^l entries and a point of l >= 1 coordinates
OpenRun ==
    /\ stage \in {"opened", "verified", "post"}
    /\ Len(point) >= 1 /\ Len(poly) = Pow2(Len(point))
\* the polynomials open builds in Phase 1
OpenPolys == fold_tower(poly, point, Len(point) - 1)
\* P[2j+1], P[2j] of the recurrence (0-based j) folded with the coordinate xv
FoldEntry(P, j, xv) == FAdd(FMul(xv, FSub(P[(2 * j) + 2], P[(2 * j) + 1])), P[(2 * j) + 1])

\* C15: for l >= 1 open builds l polynomials P_0 .. P_{l-1}, P_0 = Z, P_i of 2^(l-i)
\* entries, P_{i+1}[j] = x[l-1-i] * (P_i[2j+1] - P_i[2j]) + P_i[2j]; the recurrence
\* applied once more to P_{l-1} with x[0] gives evaluate(Z, x); the proof has l - 1
\* entries in com (the commitments to P_1 .. P_{l-1}), 3 in w and 3 rows of l in v
C15_FoldTower ==
    OpenRun =>
        \A l \in {Len(point)}, P \in {OpenPolys} :
            /\ ores.status = "Ok"
            /\ Len(P) = l
            /\ P[1] = poly
            /\ \A i \in 0 .. (l - 1) : Len(P[i + 1]) = Pow2(l - i)
            /\ \A i \in 0 .. (l - 2) : \A j \in 0 .. (Pow2(l - i - 1) - 1) :
                  P[i + 2][j + 1] = FoldEntry(P[i + 1], j, point[l - i])
            /\ FoldEntry(P[l], 0, point[1]) = evaluate(poly, point)
            /\ Len(ores.proof.com) = l - 1
            /\ \A i \in 1 .. (l - 1) :
                  ores.proof.com[i] = UnivariateKZG_commit(pk, P[i + 1]).val
            /\ Len(ores.proof.w) = 3
            /\ Len(ores.proof.v) = 3
            /\ \A j \in 1 .. 3 : Len(ores.proof.v[j]) = l

\* C15 witness: open has folded an indicator polynomial of eight entries with a point
\* of three distinct coordinates, and the value depends on which coordinate is bound
\* to which bit of the index
C15_Witness ==
    /\ OpenRun /\ ores.status = "Ok"
    /\ Len(point) = 3 /\ point = <<FZero, FOne, FFrom(2)>>
    /\ Len(OpenPolys) = 3 /\ Len(ores.proof.com) = 2
    /\ evaluate(poly, point) # FZero
    /\ evaluate(poly, <<point[3], point[2], point[1]>>) = FZero

\* C16: for f of d >= 1 coefficients and a point u, the h of
\* compute_witness_polynomial has d entries, h[d-1] = 0 and h[i-1] = f[i] + h[i] * u,
\* and f(X) - f(u) = (X - u) * h(X) coefficient by coefficient, f(u) being the
\* value of poly_eval: f[0] - f(u) = -u * h[0] and f[i] = h[i-1] - u * h[i]; so the
\* commitment w to h satisfies (tau - u) * w = commit(f) - f(u) * g1
C16_WitnessPolynomial ==
    call.fn = "kzg_open" =>
        \A f \in {call.f}, u \in {call.u}, h \in {call.h} :
            /\ Len(f) >= 1
            /\ Len(h) = Len(f)
            /\ h[Len(f)] = FZero
            /\ \A i \in 1 .. (Len(f) - 1) : h[i] = FAdd(f[i + 1], FMul(h[i + 1], u))
            /\ FSub(f[1], poly_eval(f, u)) = FNeg(FMul(u, h[1]))
            /\ \A i \in 2 .. Len(f) : f[i] = FSub(h[i - 1], FMul(u, h[i]))
            /\ call.w.ok
            /\ G1Mul(call.w.val, FSub(tau, u))
                  = G1Add(UnivariateKZG_commit(pk, f).val,
                          G1Mul(G1Gen, FNeg(poly_eval(f, u))))

\* C16 witness: kzg_open has run on a polynomial of degree three at a point other
\* than 0 and 1, with a witness polynomial and a value f(u) that are not zero
C16_Witness ==
    /\ call.fn = "kzg_open"
    /\ Len(call.f) = 4 /\ call.f[4] # FZero /\ call.f[2] # FZero
    /\ call.u = FFrom(2)
    /\ call.h[1] # FZero /\ call.h[2] # call.f[3]
    /\ poly_eval(call.f, call.u) # FZero

\* the plaintext form of the check: C_B = sum q^i * C_i, B(u_j) = sum q^i * v[j][i],
\* and the equations e(C_B - B(u_j)*g1 + u_j*w_j, g2) = e(w_j, tau*g2) for j = 0, 1, 2
\* summed with the weights (1, d_0, d_0^2)
PlainC_B == FSum([i \in 1 .. Len(call.C) |-> G1Mul(call.C[i], FPow(call.q, i - 1))])
PlainB(j) == FSum([i \in 1 .. Len(call.C) |-> FMul(FPow(call.q, i - 1), call.v[j][i])])
PlainWeight(j) == FPow(call.d_0, j - 1)
PlainL(j) ==
    G1Add(G1Add(PlainC_B, G1Mul(vk.g1, FNeg(PlainB(j)))), G1Mul(call.W[j], call.u[j]))
PlainCheck ==
    FSum([j \in 1 .. 3 |-> FMul(PlainWeight(j), pairing(PlainL(j), vk.g2))])
        = FSum([j \in 1 .. 3 |-> FMul(PlainWeight(j), pairing(call.W[j], vk.beta_g2))])

\* C17: kzg_verify_batch, which computes the grouped form e(L, g2) = e(R, tau*g2),
\* accepts exactly when the weighted sum of the three per-point equations holds
C17_BatchedPairingEquivalence ==
    call.fn = "kzg_verify_batch" =>
        /\ call.result \in {"Ok", "InternalError"}
        /\ call.result = "Ok" <=> PlainCheck

\* C17 witness: kzg_verify_batch has accepted two commitments with a witness that
\* is not zero, at weights that are not zero
C17_Witness ==
    /\ call.fn = "kzg_verify_batch" /\ call.result = "Ok"
    /\ Len(call.C) = 2 /\ call.C[2] # G1Zero /\ call.W[2] # G1Zero
    /\ call.q # FZero /\ call.d_0 = FFrom(2)
    /\ PlainCheck

\* open computed in one piece, with the challenges the task-by-task run drew
SeqCommit == open_commit_phase(pk, NewTranscript, poly, point)
SeqEvals(p1) == kzg_open_batch_evals(p1.polys, points_of(unwrap(par.r)), p1.tr)
SeqWitnesses(p1, p2) ==
    kzg_open_batch_witnesses(pk, p1.polys, points_of(unwrap(par.r)), unwrap(par.q), p2.tr)
\* a slot is empty or holds the entry of the whole result at its own index
SlotsWithin(slots, whole) ==
    /\ Len(slots) = Len(whole)
    /\ \A i \in 1 .. Len(slots) : slots[i] = Nothing \/ slots[i] = Some(whole[i])

\* C18: whatever order the tasks of a parallel phase run in, every slot is empty
\* or holds the value of its own index; the transcript is appended to only after
\* the phase has finished, with the payload in index order; and the proof and the
\* transcript open returns are those of open computed in one piece
C18_ParallelPhases ==
    par.phase \in {"fold", "commit", "evals", "witness", "done"} =>
        \A p1 \in {SeqCommit} :
            /\ par.phase = "fold" =>
                  /\ ptr = NewTranscript
                  /\ par.polys = SubSeq(p1.polys, 1, Len(par.polys))
                  /\ SlotsWithin(par.Pi, p1.polys[Len(par.polys) + 1])
            /\ par.phase = "commit" =>
                  /\ ptr = NewTranscript
                  /\ par.polys = p1.polys
                  /\ SlotsWithin(par.com, p1.com)
            /\ par.phase \in {"evals", "witness", "done"} =>
                  \A p2 \in {SeqEvals(p1)} :
                     /\ par.com_vec = p1.com
                     /\ par.phase = "evals" =>
                           /\ ptr = p1.tr
                           /\ Len(par.v) = 3
                           /\ \A i \in 1 .. 3 : SlotsWithin(par.v[i], p2.v[i])
                     /\ par.phase \in {"witness", "done"} =>
                           \A p3 \in {SeqWitnesses(p1, p2)} :
                              /\ par.v_vec = p2.v
                              /\ SlotsWithin(par.w, p3.w)
                              /\ par.phase = "witness" => ptr = p2.tr
                              /\ par.phase = "done" =>
                                    /\ ores.status = "Ok"
                                    /\ ores.proof = [com |-> p1.com, w |-> p3.w, v |-> p2.v]
                                    /\ ptr = p3.tr

\* C18 witness: open has returned after the witness openings finished in the
\* order 2, 0, 1, with witnesses that differ and a fold commitment
C18_Witness ==
    /\ par.phase = "done" /\ ores.status = "Ok"
    /\ par.w_order = <<3, 1, 2>>
    /\ ores.proof.w[3] # ores.proof.w[1] /\ ores.proof.w[1] # ores.proof.w[2]
    /\ Len(ores.proof.com) = 1 /\ ores.proof.com[1] # G1Zero
    /\ ptr = SeqWitnesses(SeqCommit, SeqEvals(SeqCommit)).tr

====
